---------------------------- MODULE Spec2Model ----------------------------
(***************************************************************************)
(* A model of the ZoeDepth panorama service:                               *)
(*   src/ZoeDepth/api/main.py               the FastAPI handlers and the   *)
(*                                          lazily built processors        *)
(*   src/ZoeDepth/api/utils/depth_processor.py                             *)
(*                                          DepthProcessor and             *)
(*                                          PanoramaProcessor              *)
(*                                                                         *)
(* Requests are served one at a time: the handlers are coroutines on one   *)
(* event loop and everything after `await file.read()` is synchronous.     *)
(*                                                                         *)
(* Numbers.  Depth values are whole numbers of metres.  The resize ratio   *)
(* is computed in IEEE-754 binary64 exactly as Python does (FloatScale).   *)
(* A projected point is represented by the class of grid cells whose       *)
(* positions trimesh rounds to the same 1e-8 lattice point (PointKey).     *)
(***************************************************************************)
EXTENDS Integers, Sequences, FiniteSets

(***************************************************************************)
(* Bounds of the model.                                                    *)
(***************************************************************************)
MaxRequests == 2     \* requests served in the service specification
MaxSide     == 4     \* image sides in the geometry specification
MaxCells    == 6     \* depth maps with at most this many cells (and at
                     \* least 2x2) are enumerated in full, larger ones are
                     \* of one depth with rows of zeros
MaxDepth    == 2     \* depth values 0..MaxDepth
MaxBigSide  == 47    \* image sides in the resize specification
MaxRes      == 3     \* max_resolution values in the resize specification

(***************************************************************************)
(* Program constants.                                                      *)
(***************************************************************************)
MantissaBits == 53   \* binary64 significand, the float of `ratio`

Max2(a, b) == IF a >= b THEN a ELSE b
Min2(a, b) == IF a <= b THEN a ELSE b

RECURSIVE SeqSum(_)
SeqSum(s) == IF s = <<>> THEN 0 ELSE Head(s) + SeqSum(Tail(s))

SeqMax(s) == CHOOSE x \in {s[i] : i \in 1..Len(s)} :
                 \A y \in {s[i] : i \in 1..Len(s)} : y <= x
SeqMin(s) == CHOOSE x \in {s[i] : i \in 1..Len(s)} :
                 \A y \in {s[i] : i \in 1..Len(s)} : x <= y

(***************************************************************************)
(* binary64 arithmetic.  A significand is held as four digits              *)
(* <<top, a, b, c>> of value ((top * R + a) * R + b) * R + c, R = 2^16,    *)
(* so that every intermediate stays far below 2^31.  Sides below 2^13.     *)
(***************************************************************************)
RECURSIVE Pow2(_)
Pow2(k) == IF k = 0 THEN 1 ELSE 2 * Pow2(k - 1)

Radix == Pow2(16)

RECURSIVE NormShift(_, _)
NormShift(n, m) == IF n >= m THEN 0 ELSE 1 + NormShift(2 * n, m)

RECURSIVE BitLen(_)
BitLen(n) == IF n = 0 THEN 0 ELSE 1 + BitLen(n \div 2)

\* Carries propagated to the top digit.
Normalize(d) ==
    LET c == d[4] % Radix
        b == d[3] + d[4] \div Radix
        a == d[2] + b \div Radix
    IN  <<d[1] + a \div Radix, a % Radix, b % Radix, c>>

\* ratio = max_resolution / max(image.size), for 0 < mr < m: the double
\* nearest to mr/m (ties to even).  Its value is the significand times
\* 2^-(RatioShift + MantissaBits - 1).
RatioShift(mr, m) == NormShift(mr, m)
RatioSig(mr, m) ==
    LET r0    == mr * Pow2(RatioShift(mr, m)) - m
        lead  == MantissaBits - 1 - 3 * 16     \* fraction bits of the top digit
        t     == (r0 * Pow2(lead)) \div m
        r1    == (r0 * Pow2(lead)) % m
        a     == (r1 * Radix) \div m
        r2    == (r1 * Radix) % m
        b     == (r2 * Radix) \div m
        r3    == (r2 * Radix) % m
        c     == (r3 * Radix) \div m
        r4    == (r3 * Radix) % m
        guard == (2 * r4) \div m
        stick == (2 * r4) % m # 0
        up    == IF guard = 1 /\ (stick \/ c % 2 = 1) THEN 1 ELSE 0
    IN  Normalize(<<Pow2(lead) + t, a, b, c + up>>)

\* A product rounded to MantissaBits significant bits (ties to even).
RoundSig(p) ==
    LET L == BitLen(p[1]) + 3 * 16
        e == L - MantissaBits
        kept  == p[4] \div Pow2(e)
        guard == (p[4] \div Pow2(e - 1)) % 2
        stick == p[4] % Pow2(e - 1) # 0
        up    == IF guard = 1 /\ (stick \/ kept % 2 = 1) THEN 1 ELSE 0
    IN  IF e <= 0 THEN p
        ELSE Normalize(<<p[1], p[2], p[3], (kept + up) * Pow2(e)>>)

\* int(x * ratio): the product rounded to a double, then truncated.
FloatScaleTrunc(x, mr, m) ==
    LET sig  == RatioSig(mr, m)
        p    == RoundSig(Normalize(<<sig[1] * x, sig[2] * x, sig[3] * x, sig[4] * x>>))
        frac == RatioShift(mr, m) + MantissaBits - 1 - 3 * 16
    IN  p[1] \div Pow2(frac)

(***************************************************************************)
(* Depth maps: [h, w, v] with v the h*w values in row-major order.         *)
(***************************************************************************)
DepthValues == 0..MaxDepth

At(d, row, col) == d.v[row * d.w + col + 1]

\* A map of one depth c, with the rows in `zero` at depth 0 (no return).
RowHoleMap(h, w, c, zero) ==
    [h |-> h, w |-> w,
     v |-> [i \in 1..(h * w) |-> IF (i - 1) \div w \in zero THEN 0 ELSE c]]

RowHoleMaps(h, w) ==
    {RowHoleMap(h, w, c, zero) : c \in DepthValues, zero \in SUBSET (0..(h - 1))}

AllMaps(h, w) == {[h |-> h, w |-> w, v |-> f] : f \in [1..(h * w) -> DepthValues]}

ConstMaps(h, w) == {RowHoleMap(h, w, c, {}) : c \in DepthValues}

\* What model.infer_pil may return for an h x w image.  "constant": one
\* depth everywhere.  "varied": every map when it is small, the maps of one
\* depth with rows of zeros when it is larger.
DepthMaps(h, w, family) ==
    IF family = "constant" THEN ConstMaps(h, w)
    ELSE IF h >= 2 /\ w >= 2 /\ h * w <= MaxCells THEN AllMaps(h, w)
    ELSE RowHoleMaps(h, w)

\* gaussian_filter(depth, sigma): every output cell is a weighted mean of
\* input cells (weights >= 0 summing to 1, reflecting borders), so it lies
\* between the least and the greatest input value, and a constant map is
\* left as it is.  On the whole-number grid of the model the outcomes drawn
\* are the map itself (a narrow kernel) and the maps flattened to one value
\* of that range (a wide one).
GaussianFilter(d) ==
    {d} \cup {RowHoleMap(d.h, d.w, c, {}) : c \in SeqMin(d.v)..SeqMax(d.v)}

(***************************************************************************)
(* depth_edges_mask.  np.gradient: central differences inside, one-sided   *)
(* at the borders; both gradients are held doubled, and the threshold as   *)
(* thr4 = floor(4 * threshold^2), so that                                  *)
(*   sqrt(dx^2 + dy^2) > threshold  <=>  (2dx)^2 + (2dy)^2 > thr4.         *)
(***************************************************************************)
Gradient0(d, row, col) ==
    IF row = 0 THEN 2 * (At(d, 1, col) - At(d, 0, col))
    ELSE IF row = d.h - 1 THEN 2 * (At(d, row, col) - At(d, row - 1, col))
    ELSE At(d, row + 1, col) - At(d, row - 1, col)

Gradient1(d, row, col) ==
    IF col = 0 THEN 2 * (At(d, row, 1) - At(d, row, 0))
    ELSE IF col = d.w - 1 THEN 2 * (At(d, row, col) - At(d, row, col - 1))
    ELSE At(d, row, col + 1) - At(d, row, col - 1)

\* np.gradient raises ValueError on an axis shorter than 2.
GradientDefined(d) == d.h >= 2 /\ d.w >= 2

DepthEdgesMask(d, thr4) ==
    [i \in 1..(d.h * d.w) |->
        LET row == (i - 1) \div d.w
            col == (i - 1) % d.w
            dx  == Gradient0(d, row, col)
            dy  == Gradient1(d, row, col)
        IN  dx * dx + dy * dy > thr4]

(***************************************************************************)
(* pano_depth_to_world_points.  lat runs from -pi/2 to pi/2 over the rows  *)
(* and lon from -pi to pi over the columns, so in the 1e-8 lattice of      *)
(* trimesh's merge: a cell of depth 0 is the origin; every cell of row 0   *)
(* is on the negative z axis and every cell of the last row (h >= 2) on    *)
(* the positive one, whatever its column; the first and the last column    *)
(* (lon = -pi, pi) coincide.  A point is <<radius, row, column class>>.    *)
(***************************************************************************)
PointKey(d, row, col) ==
    LET r == At(d, row, col)
    IN  IF r = 0 THEN <<0, 0, 0>>
        ELSE IF row = 0 \/ row = d.h - 1 THEN <<r, row, 0>>
        ELSE <<r, row, IF d.w >= 2 THEN col % (d.w - 1) ELSE 0>>

PanoDepthToWorldPoints(d) ==
    [i \in 1..(d.h * d.w) |-> PointKey(d, (i - 1) \div d.w, (i - 1) % d.w)]

(***************************************************************************)
(* create_triangles(h, w, mask) of zoedepth.utils.geometry, after section  *)
(* 4.3 of the specification: two triangles (tl, bl, tr), (tr, bl, br) per  *)
(* quad, row-major, a quad being left out when any of its four corners is  *)
(* not valid in the (flattened) mask.                                      *)
(***************************************************************************)
QuadCorners(w, q) ==
    LET row == q \div (w - 1)
        col == q % (w - 1)
        tl  == row * w + col
    IN  [tl |-> tl, tr |-> tl + 1, bl |-> tl + w, br |-> tl + w + 1]

QuadCount(h, w) == IF h >= 2 /\ w >= 2 THEN (h - 1) * (w - 1) ELSE 0

QuadValid(valid, c) == valid[c.tl + 1] /\ valid[c.tr + 1] /\ valid[c.bl + 1] /\ valid[c.br + 1]

RECURSIVE TrianglesFrom(_, _, _, _)
TrianglesFrom(h, w, valid, q) ==
    IF q >= QuadCount(h, w) THEN <<>>
    ELSE LET c == QuadCorners(w, q)
         IN  (IF QuadValid(valid, c)
              THEN << <<c.tl, c.bl, c.tr>>, <<c.tr, c.bl, c.br>> >>
              ELSE <<>>)
             \o TrianglesFrom(h, w, valid, q + 1)

CreateTriangles(h, w, valid) == TrianglesFrom(h, w, valid, 0)

AllValid(h, w) == [i \in 1..(h * w) |-> TRUE]

\* mask = ~edge_mask
InvertMask(mask) == [i \in 1..Len(mask) |-> ~mask[i]]

(***************************************************************************)
(* trimesh.  A mesh is [vertices, faces]; faces hold 0-based indices.      *)
(***************************************************************************)
NoMesh == [vertices |-> <<>>, faces |-> <<>>]

FaceIndices(faces) == UNION {{faces[i][1], faces[i][2], faces[i][3]} : i \in 1..Len(faces)}

\* Trimesh.merge_vertices (grouping.merge_vertices): the vertices the faces
\* reference (all of them when there are no faces) are grouped by rounded
\* position; each group keeps its lowest index, kept vertices stay in index
\* order, unreferenced vertices are dropped, faces are renumbered.
MergeVertices(m) ==
    IF Len(m.vertices) = 0 THEN m
    ELSE LET referenced == IF Len(m.faces) > 0 THEN FaceIndices(m.faces)
                           ELSE 0..(Len(m.vertices) - 1)
             first(i)   == CHOOSE f \in referenced :
                               /\ m.vertices[f + 1] = m.vertices[i + 1]
                               /\ \A g \in referenced :
                                     m.vertices[g + 1] = m.vertices[i + 1] => f <= g
             mask       == {first(i) : i \in referenced}
             inverse(i) == Cardinality({f \in mask : f < first(i)})
             kept(n)    == CHOOSE f \in mask : Cardinality({g \in mask : g < f}) = n - 1
         IN  [vertices |-> [n \in 1..Cardinality(mask) |-> m.vertices[kept(n) + 1]],
              faces    |-> [k \in 1..Len(m.faces) |->
                               <<inverse(m.faces[k][1]), inverse(m.faces[k][2]),
                                 inverse(m.faces[k][3])>>]]

\* Directions of two points (neither the origin) on one line through the
\* origin: both on the z axis, or the same direction, or opposite ones (the
\* mirrored row, the column half a turn away).
OnAxis(h, p) == p[2] = 0 \/ p[2] = h - 1

Opposite(h, w, p, q) ==
    /\ w >= 3 /\ (w - 1) % 2 = 0
    /\ q[2] = h - 1 - p[2]
    /\ q[3] = (p[3] + (w - 1) \div 2) % (w - 1)

SameLine(h, w, p, q) ==
    \/ OnAxis(h, p) /\ OnAxis(h, q)
    \/ /\ ~OnAxis(h, p) /\ ~OnAxis(h, q)
       /\ (p[2] = q[2] /\ p[3] = q[3]) \/ Opposite(h, w, p, q)

\* triangles.nondegenerate(height = tol.merge) rejects a triangle whose
\* three points are on one line: two of them coincide, or all three are on a
\* line through the origin.  (Three points on a line that misses the origin
\* need three different directions in one plane through it and radii to
\* match; no map enumerated here has them: a map has at most three rows, or
\* all its points are on one sphere or at the origin.)
Degenerate(h, w, p1, p2, p3) ==
    \/ p1 = p2 \/ p2 = p3 \/ p1 = p3
    \/ \A p \in {p1, p2, p3} : \A q \in {p1, p2, p3} :
           (p[1] # 0 /\ q[1] # 0) => SameLine(h, w, p, q)

\* A cleanup that leaves the degenerate faces in.
RemoveDegenerateFacesSkipped(h, w, m) == m

\* Trimesh.remove_degenerate_faces: the faces only; vertices stay.
RemoveDegenerateFaces(h, w, m) ==
    LET Keep(f) == ~Degenerate(h, w, m.vertices[f[1] + 1], m.vertices[f[2] + 1],
                               m.vertices[f[3] + 1])
    IN  [m EXCEPT !.faces = SelectSeq(m.faces, Keep)]

SortedFace(f) ==
    LET lo == Min2(f[1], Min2(f[2], f[3]))
        hi == Max2(f[1], Max2(f[2], f[3]))
    IN  <<lo, f[1] + f[2] + f[3] - lo - hi, hi>>

RECURSIVE FirstOccurrences(_, _)
FirstOccurrences(faces, k) ==
    IF k > Len(faces) THEN <<>>
    ELSE (IF \E j \in 1..(k - 1) : SortedFace(faces[j]) = SortedFace(faces[k])
          THEN <<>> ELSE <<faces[k]>>)
         \o FirstOccurrences(faces, k + 1)

\* Trimesh.remove_duplicate_faces: unique_rows(sort(faces, axis=1)) keeps the
\* first face of every set of faces over the same three indices.  (The faces
\* are listed here in their old order.)
RemoveDuplicateFaces(m) == [m EXCEPT !.faces = FirstOccurrences(m.faces, 1)]

\* trimesh.Trimesh(vertices, faces, vertex_colors): process=True merges the
\* vertices at construction.  A face index past the vertex array raises
\* IndexError there.
TrimeshIndexable(verts, faces) == \A i \in FaceIndices(faces) : i < Len(verts)

\* A constructor that does not merge (process=False).
TrimeshUnmerged(verts, faces) == [vertices |-> verts, faces |-> faces]

Trimesh(verts, faces) == MergeVertices([vertices |-> verts, faces |-> faces])

(***************************************************************************)
(* The service.                                                            *)
(***************************************************************************)
VARIABLES
    depth_processor,     \* main.py global: "None", or the DepthProcessor with
                         \* its model not loaded ("NoModel") or loaded ("Loaded")
    panorama_processor,  \* main.py global: TRUE once built
    regular_processor,   \* main.py global: TRUE once built
    tmp_files,           \* temporary mesh files on disk
    served,              \* requests received so far
    pc,                  \* where the request being served stands
    req,                 \* its parameters
    format,              \* panorama_to_3d: format, once lowered
    image,               \* <<width, height>> of `image`
    depth,               \* process_panorama: depth
    pts3d,               \* process_panorama: verts
    triangles,           \* process_panorama: triangles
    mesh,                \* process_panorama: mesh
    metadata,            \* process_panorama: metadata
    steps,               \* the steps process_panorama has run, in order
    depth_calls,         \* calls of estimate_depth by this request
    outcome,             \* process_panorama: "none", "running", "returned", "raised"
    exc,                 \* the exception being handled
    response             \* what the caller got

vars == <<depth_processor, panorama_processor, regular_processor, tmp_files, served,
          pc, req, format, image, depth, pts3d, triangles, mesh, metadata, steps,
          depth_calls, outcome, exc, response>>

globals == <<depth_processor, panorama_processor, regular_processor>>
work    == <<format, image, depth, pts3d, triangles, mesh, metadata>>

NoDepth    == [h |-> 0, w |-> 0, v |-> <<>>]
NoMetadata == [vertices |-> -1, faces |-> -1, resolution |-> <<0, 0>>,
               depth_min |-> 0, depth_max |-> 0, depth_sum |-> 0, depth_count |-> 0]
NoRequest  == [endpoint |-> "none", format |-> "", decodable |-> FALSE, size |-> <<0, 0>>,
               max_resolution |-> 0, smooth_depth |-> FALSE, remove_edges |-> FALSE,
               edge_threshold |-> 0]
NoExc      == [type |-> "", status |-> 0, detail |-> ""]
NoResponse == [endpoint |-> "none", status |-> 0, detail |-> "", inner |-> "",
               model_loaded |-> FALSE, vertices |-> -1, faces |-> -1]

FormatDetail == "Format must be 'glb', 'obj', or 'ply'"
OutputFormats == {"glb", "obj", "ply"}

\* str.lower() on the format strings of the model.
Lower(f) ==
    CASE f = "GLB" -> "glb"
      [] f = "Obj" -> "obj"
      [] f = "STL" -> "stl"
      [] OTHER     -> f

\* edge_threshold as floor(4 * threshold^2): 0 for the default 0.03 (any
\* threshold below 0.5), 2 for one in [0.71, 0.86].
DefaultThreshold == 0
EdgeThresholds == {DefaultThreshold, 2}

PanoramaRequest(f, dec, size, mr, smooth, edges, thr) ==
    [endpoint |-> "panorama", format |-> f, decodable |-> dec, size |-> size,
     max_resolution |-> mr, smooth_depth |-> smooth, remove_edges |-> edges,
     edge_threshold |-> thr]

\* The requests of the service specification: every format, an upload that
\* does not decode, and small images under every option.
ServiceRequests ==
    {PanoramaRequest(f, TRUE, <<2, 2>>, 2, FALSE, FALSE, DefaultThreshold) :
        f \in {"glb", "GLB", "obj", "Obj", "ply", "stl", "STL", ""}}
    \cup {PanoramaRequest("glb", FALSE, <<0, 0>>, 2, FALSE, FALSE, DefaultThreshold)}
    \cup {PanoramaRequest("glb", TRUE, <<w, h>>, mr, smooth, edges, DefaultThreshold) :
            w \in 1..2, h \in 1..2, mr \in 1..2, smooth \in BOOLEAN, edges \in BOOLEAN}

\* The requests of the geometry specification: every image size, resized or
\* not, under every option (the threshold matters only with remove_edges).
GeometryRequests ==
    {PanoramaRequest("glb", TRUE, <<w, h>>, mr, smooth, TRUE, thr) :
        w \in 1..MaxSide, h \in 1..MaxSide, mr \in {2, MaxSide},
        smooth \in BOOLEAN, thr \in EdgeThresholds}
    \cup {PanoramaRequest("glb", TRUE, <<w, h>>, mr, smooth, FALSE, DefaultThreshold) :
        w \in 1..MaxSide, h \in 1..MaxSide, mr \in {2, MaxSide},
        smooth \in BOOLEAN}

\* The requests of the resize specification.
ResizeRequests ==
    {PanoramaRequest("glb", TRUE, <<w, h>>, mr, FALSE, FALSE, DefaultThreshold) :
        w \in 1..MaxBigSide, h \in 1..MaxBigSide, mr \in 1..MaxRes}

Init ==
    /\ depth_processor = "None"
    /\ panorama_processor = FALSE
    /\ regular_processor = FALSE
    /\ tmp_files = 0
    /\ served = 0
    /\ pc = "idle"
    /\ req = NoRequest
    /\ format = ""
    /\ image = <<0, 0>>
    /\ depth = NoDepth
    /\ pts3d = <<>>
    /\ triangles = <<>>
    /\ mesh = NoMesh
    /\ metadata = NoMetadata
    /\ steps = <<>>
    /\ depth_calls = 0
    /\ outcome = "none"
    /\ exc = NoExc
    /\ response = NoResponse

(***************************************************************************)
(* DepthProcessor.load_model and get_depth_processor.  torch.hub.load may  *)
(* raise (no network, no weights); `ok` says whether it does not.          *)
(***************************************************************************)
LoadModel(dp, ok) == IF dp = "Loaded" THEN "Loaded" ELSE IF ok THEN "Loaded" ELSE "NoModel"
LoadRaises(dp, ok) == dp # "Loaded" /\ ~ok

\* get_depth_processor: the global is assigned before load_model is called.
GetDepthProcessor(dp, ok) ==
    IF dp = "None" THEN [dp |-> LoadModel("NoModel", ok), raised |-> LoadRaises("NoModel", ok)]
    ELSE [dp |-> dp, raised |-> FALSE]

Raise(type, status, detail) ==
    /\ pc' = "except"
    /\ exc' = [type |-> type, status |-> status, detail |-> detail]

ResetWork ==
    /\ format' = ""
    /\ image' = <<0, 0>>
    /\ depth' = NoDepth
    /\ pts3d' = <<>>
    /\ triangles' = <<>>
    /\ mesh' = NoMesh
    /\ metadata' = NoMetadata

(***************************************************************************)
(* GET /, /health, /info: get_depth_processor(), then the answer.          *)
(* No try/except: an exception of load_model is the framework's 500.       *)
(***************************************************************************)
SimpleEndpoint(limit) ==
    /\ pc = "idle" /\ served < limit
    /\ \E e \in {"root", "health", "info"}, ok \in BOOLEAN :
         LET g == GetDepthProcessor(depth_processor, ok)
         IN  /\ depth_processor' = g.dp
             /\ response' = IF g.raised
                            THEN [NoResponse EXCEPT !.endpoint = e, !.status = 500,
                                                    !.detail = "Internal Server Error"]
                            ELSE [NoResponse EXCEPT !.endpoint = e, !.status = 200,
                                                    !.detail = IF e = "health" THEN "healthy" ELSE "",
                                                    !.model_loaded = (g.dp = "Loaded")]
    /\ served' = served + 1
    /\ req' = NoRequest /\ steps' = <<>> /\ depth_calls' = 0 /\ outcome' = "none"
    /\ UNCHANGED <<panorama_processor, regular_processor, tmp_files, pc, exc, work>>

(***************************************************************************)
(* POST /estimate-depth: decode, get_regular_processor, process_image      *)
(* (estimate_depth: load_model when the model is None, then infer_pil);    *)
(* every exception becomes a 500.                                          *)
(***************************************************************************)
EstimateDepthEndpoint(limit) ==
    /\ pc = "idle" /\ served < limit
    /\ \E decodable \in BOOLEAN, ok \in BOOLEAN, ok2 \in BOOLEAN, inferred \in BOOLEAN :
         LET g  == IF regular_processor THEN [dp |-> depth_processor, raised |-> FALSE]
                   ELSE GetDepthProcessor(depth_processor, ok)
             rp == regular_processor \/ (decodable /\ ~g.raised)
             dp == IF ~decodable THEN depth_processor
                   ELSE IF g.raised THEN g.dp
                   ELSE LoadModel(g.dp, ok2)
             good == decodable /\ ~g.raised /\ ~LoadRaises(g.dp, ok2) /\ inferred
         IN  /\ depth_processor' = dp
             /\ regular_processor' = rp
             /\ response' = IF good
                            THEN [NoResponse EXCEPT !.endpoint = "estimate-depth", !.status = 200]
                            ELSE [NoResponse EXCEPT !.endpoint = "estimate-depth", !.status = 500,
                                                    !.detail = "Error processing image"]
    /\ served' = served + 1
    /\ req' = NoRequest /\ steps' = <<>> /\ depth_calls' = 0 /\ outcome' = "none"
    /\ UNCHANGED <<panorama_processor, tmp_files, pc, exc, work>>

(***************************************************************************)
(* POST /panorama-to-3d, step by step.                                     *)
(***************************************************************************)
StartPanorama(requests, limit) ==
    /\ pc = "idle" /\ served < limit
    /\ \E r \in requests : req' = r
    /\ served' = served + 1
    /\ pc' = "validate"
    /\ response' = NoResponse
    /\ steps' = <<>> /\ depth_calls' = 0 /\ outcome' = "none"
    /\ UNCHANGED <<globals, tmp_files, exc, work>>

\* format = format.lower(); the HTTPException(400) is raised inside the try.
ValidateFormat ==
    /\ pc = "validate"
    /\ format' = Lower(req.format)
    /\ IF Lower(req.format) \notin OutputFormats
       THEN Raise("HTTPException", 400, FormatDetail)
       ELSE pc' = "decode" /\ exc' = exc
    /\ UNCHANGED <<globals, tmp_files, served, req, image, depth, pts3d, triangles, mesh,
                   metadata, steps, depth_calls, outcome, response>>

\* Image.open(io.BytesIO(contents)).convert('RGB')
DecodeImage ==
    /\ pc = "decode"
    /\ IF req.decodable
       THEN image' = req.size /\ pc' = "get_processor" /\ exc' = exc
       ELSE image' = image /\ Raise("UnidentifiedImageError", 0, "cannot identify image file")
    /\ UNCHANGED <<globals, tmp_files, served, req, format, depth, pts3d, triangles, mesh,
                   metadata, steps, depth_calls, outcome, response>>

\* get_panorama_processor()
GetPanoramaProcessor ==
    /\ pc = "get_processor"
    /\ \E ok \in BOOLEAN :
         LET g == IF panorama_processor THEN [dp |-> depth_processor, raised |-> FALSE]
                  ELSE GetDepthProcessor(depth_processor, ok)
         IN  /\ depth_processor' = g.dp
             /\ panorama_processor' = (panorama_processor \/ ~g.raised)
             /\ IF g.raised
                THEN Raise("LoadError", 0, "model load failed") /\ outcome' = outcome
                ELSE pc' = "resize" /\ exc' = exc /\ outcome' = "running"
    /\ UNCHANGED <<regular_processor, tmp_files, served, req, steps, depth_calls,
                   response, work>>

\* new_size = (int(image.size[0] * ratio), int(image.size[1] * ratio))
NewSize(size, mr) ==
    LET m == Max2(size[1], size[2])
    IN  <<FloatScaleTrunc(size[1], mr, m), FloatScaleTrunc(size[2], mr, m)>>

\* Image.resize raises ValueError ("height and width must be > 0").
Resize ==
    /\ pc = "resize"
    /\ IF Max2(image[1], image[2]) > req.max_resolution
       THEN /\ steps' = Append(steps, "resize")
            /\ LET new == NewSize(image, req.max_resolution)
               IN  IF new[1] < 1 \/ new[2] < 1
                   THEN /\ Raise("ValueError", 0, "height and width must be > 0")
                        /\ outcome' = "raised"
                        /\ image' = image
                   ELSE /\ image' = new
                        /\ pc' = "estimate" /\ exc' = exc /\ outcome' = outcome
       ELSE /\ pc' = "estimate"
            /\ UNCHANGED <<steps, image, exc, outcome>>
    /\ UNCHANGED <<globals, tmp_files, served, req, format, depth, pts3d, triangles, mesh,
                   metadata, depth_calls, response>>

\* The shapes <<h, w>> the depth source may answer with: the image's, and,
\* when `transposed`, the image's with its axes swapped.
DepthShapes(size, transposed) ==
    {<<size[2], size[1]>>} \cup (IF transposed THEN {<<size[1], size[2]>>} ELSE {})

\* depth = self.depth_processor.estimate_depth(image): load_model when the
\* model is None, then model.infer_pil(image); either may raise.
EstimateDepth(transposed, family) ==
    /\ pc = "estimate"
    /\ steps' = Append(steps, "estimate")
    /\ depth_calls' = depth_calls + 1
    /\ \E ok \in BOOLEAN :
         /\ depth_processor' = LoadModel(depth_processor, ok)
         /\ \/ /\ LoadRaises(depth_processor, ok)
               /\ Raise("LoadError", 0, "model load failed")
               /\ outcome' = "raised" /\ depth' = depth
            \/ /\ ~LoadRaises(depth_processor, ok)
               /\ Raise("RuntimeError", 0, "inference failed")
               /\ outcome' = "raised" /\ depth' = depth
            \/ /\ ~LoadRaises(depth_processor, ok)
               /\ \E shape \in DepthShapes(image, transposed) :
                    \E d \in DepthMaps(shape[1], shape[2], family) : depth' = d
               /\ pc' = "smooth" /\ exc' = exc /\ outcome' = outcome
    /\ UNCHANGED <<panorama_processor, regular_processor, tmp_files, served, req, format,
                   image, pts3d, triangles, mesh, metadata, response>>

\* if smooth_depth: depth = gaussian_filter(depth, sigma=smooth_sigma)
SmoothDepth ==
    /\ pc = "smooth"
    /\ IF req.smooth_depth
       THEN /\ steps' = Append(steps, "smooth")
            /\ \E e \in GaussianFilter(depth) : depth' = e
       ELSE UNCHANGED <<steps, depth>>
    /\ pc' = "project"
    /\ UNCHANGED <<globals, tmp_files, served, req, format, image, pts3d, triangles, mesh,
                   metadata, depth_calls, outcome, exc, response>>

\* pts3d = self.pano_depth_to_world_points(depth); verts = pts3d.reshape(-1, 3)
Project ==
    /\ pc = "project"
    /\ steps' = Append(steps, "project")
    /\ pts3d' = PanoDepthToWorldPoints(depth)
    /\ pc' = "triangulate"
    /\ UNCHANGED <<globals, tmp_files, served, req, format, image, depth, triangles, mesh,
                   metadata, depth_calls, outcome, exc, response>>

\* The edge mask handed on as it is (mask=edge_mask).
TriangleMaskNotInverted(d, thr4) == DepthEdgesMask(d, thr4)

\* edge_mask = self.depth_edges_mask(depth, threshold=edge_threshold), handed
\* on as mask=~edge_mask.
TriangleMask(d, thr4) == InvertMask(DepthEdgesMask(d, thr4))

\* image_array.shape[0] is the height, image_array.shape[1] the width.
Triangulate ==
    /\ pc = "triangulate"
    /\ LET h == image[2]
           w == image[1]
       IN  IF req.remove_edges
           THEN /\ steps' = steps \o <<"edges", "triangulate">>
                /\ IF ~GradientDefined(depth)
                   THEN /\ Raise("ValueError", 0, "array too small for a gradient")
                        /\ outcome' = "raised" /\ triangles' = triangles
                   ELSE IF QuadCount(h, w) > 0 /\ Len(TriangleMask(depth, req.edge_threshold)) < h * w
                   THEN /\ Raise("IndexError", 0, "mask index out of bounds")
                        /\ outcome' = "raised" /\ triangles' = triangles
                   ELSE /\ triangles' = CreateTriangles(h, w, TriangleMask(depth, req.edge_threshold))
                        /\ pc' = "build" /\ exc' = exc /\ outcome' = outcome
           ELSE /\ steps' = Append(steps, "triangulate")
                /\ triangles' = CreateTriangles(h, w, AllValid(h, w))
                /\ pc' = "build" /\ exc' = exc /\ outcome' = outcome
    /\ UNCHANGED <<globals, tmp_files, served, req, format, image, depth, pts3d, mesh,
                   metadata, depth_calls, response>>

\* mesh = trimesh.Trimesh(vertices=verts, faces=triangles, vertex_colors=colors)
BuildMesh ==
    /\ pc = "build"
    /\ steps' = Append(steps, "build")
    /\ IF TrimeshIndexable(pts3d, triangles)
       THEN /\ mesh' = Trimesh(pts3d, triangles)
            /\ pc' = "degenerate" /\ exc' = exc /\ outcome' = outcome
       ELSE /\ Raise("IndexError", 0, "face index out of bounds")
            /\ outcome' = "raised" /\ mesh' = mesh
    /\ UNCHANGED <<globals, tmp_files, served, req, format, image, depth, pts3d, triangles,
                   metadata, depth_calls, response>>

\* mesh.remove_degenerate_faces()
CleanDegenerate ==
    /\ pc = "degenerate"
    /\ steps' = Append(steps, "remove_degenerate_faces")
    /\ mesh' = RemoveDegenerateFaces(depth.h, depth.w, mesh)
    /\ pc' = "duplicate"
    /\ UNCHANGED <<globals, tmp_files, served, req, format, image, depth, pts3d, triangles,
                   metadata, depth_calls, outcome, exc, response>>

\* mesh.remove_duplicate_faces()
CleanDuplicate ==
    /\ pc = "duplicate"
    /\ steps' = Append(steps, "remove_duplicate_faces")
    /\ mesh' = RemoveDuplicateFaces(mesh)
    /\ pc' = "merge"
    /\ UNCHANGED <<globals, tmp_files, served, req, format, image, depth, pts3d, triangles,
                   metadata, depth_calls, outcome, exc, response>>

\* mesh.merge_vertices()
CleanMerge ==
    /\ pc = "merge"
    /\ steps' = Append(steps, "merge_vertices")
    /\ mesh' = MergeVertices(mesh)
    /\ pc' = "metadata"
    /\ UNCHANGED <<globals, tmp_files, served, req, format, image, depth, pts3d, triangles,
                   metadata, depth_calls, outcome, exc, response>>

\* metadata = {...}; return mesh, metadata.  depth_mean is held as the sum
\* and the count of the depth values; `resolution` as <<width, height>>, the
\* two numbers of f"{width}x{height}"; the device label is left out.
Metadata(m, size, d) ==
    [vertices |-> Len(m.vertices), faces |-> Len(m.faces), resolution |-> size,
     depth_min |-> SeqMin(d.v), depth_max |-> SeqMax(d.v),
     depth_sum |-> SeqSum(d.v), depth_count |-> Len(d.v)]

ReturnMetadata ==
    /\ pc = "metadata"
    /\ steps' = Append(steps, "metadata")
    /\ metadata' = Metadata(mesh, image, depth)
    /\ outcome' = "returned"
    /\ pc' = "export"
    /\ UNCHANGED <<globals, tmp_files, served, req, format, image, depth, pts3d, triangles,
                   mesh, depth_calls, exc, response>>

\* with tempfile.NamedTemporaryFile(suffix=..., delete=False) as tmp:
\*     mesh.export(tmp.name)
ExportMesh ==
    /\ pc = "export"
    /\ tmp_files' = tmp_files + 1
    /\ \E ok \in BOOLEAN :
         IF ok THEN pc' = "read" /\ exc' = exc
         ELSE Raise("ExportError", 0, "mesh export failed")
    /\ UNCHANGED <<globals, served, req, steps, depth_calls, outcome, response, work>>

\* with open(tmp_path, 'rb') as f: mesh_data = f.read()
ReadMeshFile ==
    /\ pc = "read"
    /\ \E ok \in BOOLEAN :
         IF ok THEN pc' = "unlink" /\ exc' = exc
         ELSE Raise("OSError", 0, "cannot read the mesh file")
    /\ UNCHANGED <<globals, tmp_files, served, req, steps, depth_calls, outcome, response,
                   work>>

\* os.unlink(tmp_path)
UnlinkMeshFile ==
    /\ pc = "unlink"
    /\ tmp_files' = tmp_files - 1
    /\ pc' = "respond"
    /\ UNCHANGED <<globals, served, req, steps, depth_calls, outcome, exc, response, work>>

\* return StreamingResponse(...)
Respond ==
    /\ pc = "respond"
    /\ response' = [NoResponse EXCEPT !.endpoint = "panorama", !.status = 200,
                                      !.vertices = metadata.vertices,
                                      !.faces = metadata.faces]
    /\ pc' = "done"
    /\ UNCHANGED <<globals, tmp_files, served, req, steps, depth_calls, outcome, exc, work>>

\* except Exception as e:
\*     raise HTTPException(status_code=500, detail=f"Error processing panorama: {str(e)}")
\* The detail is held in two parts: the prefix, and str(e).
ExceptHandler ==
    /\ pc = "except"
    /\ response' = [NoResponse EXCEPT !.endpoint = "panorama", !.status = 500,
                                      !.detail = "Error processing panorama: ",
                                      !.inner = exc.detail]
    /\ pc' = "done"
    /\ UNCHANGED <<globals, tmp_files, served, req, steps, depth_calls, outcome, exc, work>>

\* The handler is left; its locals are gone.
Finish ==
    /\ pc = "done"
    /\ pc' = "idle"
    /\ req' = NoRequest /\ steps' = <<>> /\ depth_calls' = 0 /\ outcome' = "none"
    /\ exc' = NoExc
    /\ ResetWork
    /\ UNCHANGED <<globals, tmp_files, served, response>>

Pipeline(transposed, family) ==
    \/ ValidateFormat
    \/ DecodeImage
    \/ GetPanoramaProcessor
    \/ Resize
    \/ EstimateDepth(transposed, family)
    \/ SmoothDepth
    \/ Project
    \/ Triangulate
    \/ BuildMesh
    \/ CleanDegenerate
    \/ CleanDuplicate
    \/ CleanMerge
    \/ ReturnMetadata
    \/ ExportMesh
    \/ ReadMeshFile
    \/ UnlinkMeshFile
    \/ Respond
    \/ ExceptHandler
    \/ Finish

\* The service: any endpoint, up to MaxRequests requests.
Next ==
    \/ SimpleEndpoint(MaxRequests)
    \/ EstimateDepthEndpoint(MaxRequests)
    \/ StartPanorama(ServiceRequests, MaxRequests)
    \/ Pipeline(TRUE, "varied")

Spec == Init /\ [][Next]_vars

\* One panorama request over the grids of the geometry bounds.
NextGeometry ==
    \/ StartPanorama(GeometryRequests, 1)
    \/ Pipeline(FALSE, "varied")

SpecGeometry == Init /\ [][NextGeometry]_vars

\* One panorama request over the image sizes of the resize bounds.
NextResize ==
    \/ StartPanorama(ResizeRequests, 1)
    \/ Pipeline(FALSE, "constant")

SpecResize == Init /\ [][NextResize]_vars
(***************************************************************************)
(* The claims.                                                             *)
(***************************************************************************)
InSteps(s) == \E i \in 1..Len(steps) : steps[i] = s

Emitted == {triangles[i] : i \in 1..Len(triangles)}

\* The corner cells of the quad at (row, col) of a grid of width w, and its
\* two triangles.
Corners(w, row, col) ==
    LET tl == row * w + col
        bl == tl + w
    IN  [tl |-> tl, tr |-> tl + 1, bl |-> bl, br |-> bl + 1]

MaskedCorners(edge, c) == {i \in {c.tl, c.tr, c.bl, c.br} : edge[i + 1]}

Quads(h, w) == (0..(h - 2)) \X (0..(w - 2))

FaceSet(f) == {f[1], f[2], f[3]}

\* C2: after remove-degenerate-faces, remove-duplicate-faces and
\* merge-vertices every triangle index is in [0, vertex count), no triangle
\* repeats a vertex index, no two triangles are over the same unordered
\* triple, and there are at most W*H vertices.
C2_CleanupPostconditions ==
    InSteps("merge_vertices") =>
        /\ \A k \in 1..Len(mesh.faces) :
             /\ FaceSet(mesh.faces[k]) \subseteq 0..(Len(mesh.vertices) - 1)
             /\ Cardinality(FaceSet(mesh.faces[k])) = 3
        /\ \A k \in 1..Len(mesh.faces) : \A j \in 1..Len(mesh.faces) :
             k # j => FaceSet(mesh.faces[k]) # FaceSet(mesh.faces[j])
        /\ Len(mesh.vertices) <= image[1] * image[2]

\* A cleaned mesh that still has faces, from a grid with a zero-depth cell,
\* with coincident points merged and faces removed.
C2_Witness ==
    /\ InSteps("merge_vertices")
    /\ Len(mesh.faces) > 0
    /\ Len(mesh.faces) < Len(triangles)
    /\ Len(mesh.vertices) < Len(pts3d)
    /\ \E i \in 1..Len(depth.v) : depth.v[i] = 0

\* The request of the end-to-end example: a 4x4 image, not resized, constant
\* depth 2, smooth_depth = false, remove_edges = false, returned.
EndToEndExample ==
    /\ outcome = "returned"
    /\ req.size = <<4, 4>> /\ image = <<4, 4>>
    /\ ~req.smooth_depth /\ ~req.remove_edges
    /\ depth = RowHoleMap(4, 4, 2, {})

ExampleMetadata ==
    /\ metadata.resolution = <<4, 4>>
    /\ metadata.depth_min = 2 /\ metadata.depth_max = 2
    /\ metadata.depth_sum = 2 * metadata.depth_count

\* C3 as written: the example returns 16 vertices and 18 triangles, and
\* metadata with these counts, resolution 4x4, depth min = max = mean = 2.
C3_Original ==
    EndToEndExample =>
        /\ Len(mesh.vertices) = 16 /\ Len(mesh.faces) = 18
        /\ metadata.vertices = 16 /\ metadata.faces = 18
        /\ ExampleMetadata

\* C3 as amended: the example returns 8 vertices (the two poles and three
\* points on each inner row) and 12 triangles, and metadata with these
\* counts, resolution 4x4, depth min = max = mean = 2.
C3_Amended ==
    EndToEndExample =>
        /\ Len(mesh.vertices) = 8 /\ Len(mesh.faces) = 12
        /\ metadata.vertices = 8 /\ metadata.faces = 12
        /\ ExampleMetadata

C3_Witness == EndToEndExample /\ pc = "export"

\* floor and ceiling of short * max_resolution / longest.
ScaledDown(short, mr, m) == (short * mr) \div m
ScaledUp(short, mr, m) == (short * mr + m - 1) \div m

\* C4: the image handed to depth estimation: when max(W, H) > max_resolution
\* its longer side is exactly max_resolution and its shorter side is the
\* shorter side times max_resolution / max(W, H) (to the pixel below or
\* above); otherwise it is the image as received.
C4_Original ==
    InSteps("estimate") =>
        LET W  == req.size[1]
            H  == req.size[2]
            mr == req.max_resolution
            m  == Max2(W, H)
        IN  IF m > mr
            THEN /\ Max2(image[1], image[2]) = mr
                 /\ image[1] \in {ScaledDown(W, mr, m), ScaledUp(W, mr, m)}
                 /\ image[2] \in {ScaledDown(H, mr, m), ScaledUp(H, mr, m)}
            ELSE image = req.size

ShapeMismatch == depth # NoDepth /\ <<depth.w, depth.h>> # image

\* C5: a depth map whose height and width are not the image's is a fatal
\* error: projection, triangulation and mesh building never run on it, and
\* no mesh or metadata is returned.
C5_Original ==
    ShapeMismatch =>
        /\ ~InSteps("project") /\ ~InSteps("triangulate") /\ ~InSteps("build")
        /\ outcome # "returned"

\* C6: an image with height < 2 or width < 2, or a cleanup that leaves no
\* vertices, is a fatal error: what process_panorama returns has h, w >= 2
\* and at least one vertex and one face.
C6_Original ==
    outcome = "returned" =>
        /\ image[1] >= 2 /\ image[2] >= 2
        /\ Len(mesh.vertices) > 0 /\ Len(mesh.faces) > 0

\* C7: a format that is not glb, obj or ply (in any case) is answered with
\* status 400 and the detail "Format must be 'glb', 'obj', or 'ply'", with
\* no image decoded and no step of process_panorama run.
C7_Original ==
    (pc = "done" /\ Lower(req.format) \notin OutputFormats) =>
        /\ response.status = 400 /\ response.detail = FormatDetail
        /\ image = <<0, 0>> /\ steps = <<>> /\ depth_calls = 0

Before(a, b) ==
    \A i \in 1..Len(steps) : \A j \in 1..Len(steps) :
        (steps[i] = a /\ steps[j] = b) => i < j

LaterSteps == {"smooth", "project", "edges", "triangulate", "build"}

\* C8: every invocation of process_panorama calls estimate_depth exactly
\* once, after the resize and before smoothing, projection, edge masking,
\* triangulation and mesh building; after a failure no step runs, the call
\* is not repeated, and no mesh or metadata is returned.
C8_Original ==
    /\ depth_calls <= 1
    /\ outcome \in {"returned", "raised"} => depth_calls = 1
    /\ Before("resize", "estimate")
    /\ \A s \in LaterSteps : Before("estimate", s)
    /\ outcome = "raised" =>
         /\ pc \in {"except", "done"}
         /\ metadata = NoMetadata
         /\ response.status # 200

\* C9: a call of get_depth_processor that returns gives a processor whose
\* model is loaded, so /health never answers "healthy" with model_loaded
\* false.
C9_Original ==
    (response.endpoint = "health" /\ response.status = 200) =>
        (response.detail = "healthy" => response.model_loaded)

\* C10: between requests no temporary mesh file is left, whether the request
\* ended with a mesh or with an error.
C10_Original == pc = "idle" => tmp_files = 0

=============================================================================
